---- MODULE Spec2Model ----
(***************************************************************************)
(* Model of the bimodality refinement of DSWX-SAR                          *)
(* (src/src/dswx_sar/refine_with_bimodality.py) and of the checks that     *)
(* precede it.                                                             *)
(*                                                                         *)
(* Three families of definitions:                                          *)
(*  - the per-component classifiers (compute_metric,                       *)
(*    process_dark_land_component, process_bright_water_component) as      *)
(*    operators over the comparison inputs they read, exercised by single  *)
(*    calls on chosen inputs;                                              *)
(*  - the two-pass block driver of remove_false_water_bimodality_parallel  *)
(*    and fill_gap_water_bimodality_parallel at pixel level on a small     *)
(*    raster;                                                              *)
(*  - the ancillary checks of pre_processing.run                           *)
(*    (src/src/dswx_sar/pre_processing.py).                                *)
(*                                                                         *)
(* Floating point values are integers in hundredths (1.5 is 150); NaN is a *)
(* distinguished value for which every comparison is false.                *)
(***************************************************************************)
EXTENDS Integers, Sequences, FiniteSets, TLC

VARIABLES
    call,             \* the classifier call under test and its result
    phase,            \* "remove" | "fill": which driver runs
    pol_list,         \* the pol_list argument
    lines_per_block,  \* the lines_per_block argument
    minimum_pixel,    \* the configured minimum_pixel
    input_mask,       \* raster at water_mask_path / bright_water_path on entry
    no_data,          \* raster at input_dict['no_data'] (fill phase)
    pc,               \* "block" | "merge" | "done" | "error"
    block_iter,       \* index into lines_per_block_set
    block_ind,        \* index of the next block of the current pass
    mask_src,         \* "input" | "check": the file the mask path points to
    label_file,       \* the water label raster the workers read
    out_file,         \* the two per-pass output rasters
    check_file,       \* the check raster
    jobs,             \* every worker call made so far: its component, what the
                      \* worker saw, and the verdict on it
    result,           \* the raster the driver returns
    pre               \* the files and progress of pre_processing.run

vars == <<call, phase, pol_list, lines_per_block, minimum_pixel, input_mask,
          no_data, pc, block_iter, block_ind, mask_src, label_file, out_file,
          check_file, jobs, result, pre>>

driverVars == <<phase, pol_list, lines_per_block, minimum_pixel, input_mask,
                no_data, pc, block_iter, block_ind, mask_src, label_file,
                out_file, check_file, jobs, result, pre>>

----------------------------------------------------------------------------
(* Floating point comparisons.                                             *)

NaN == -999999

\* a > b in IEEE arithmetic: false when either side is NaN
Gt(a, b) == a # NaN /\ b # NaN /\ a > b

\* a < b in IEEE arithmetic: false when either side is NaN
Lt(a, b) == a # NaN /\ b # NaN /\ a < b

\* int(x) of a Python bool
BoolToInt(b) == IF b THEN 1 ELSE 0

----------------------------------------------------------------------------
(* BimodalityMetrics.compute_metric                                        *)
(*                                                                         *)
(* A BimodalityMetrics object is the record                                *)
(*   [error, optimization, n, ashman, bhc, surface_ratio, valley,          *)
(*    bc_coeff, bt_max, ad_max]                                            *)
(* error: "none" for a constructed object, else the exception __init__     *)
(* raised (no object exists and the other fields mean nothing);            *)
(* optimization: the fit flag; n: len(int_db); valley: the valley-split    *)
(* sigma_b; bt_max, ad_max: what estimate_bimodality(int_db) returns.      *)
(* thresholds is the Python list, as a sequence: thresholds[k] in Python   *)
(* is thresholds[k + 1] here.                                              *)

\* the literal 3 of `ashman > 3`
AshmanStrong == 300

\* the literal 1.5 of `ad_max > 1.5`
AdFallback == 150

\* bc_coeff > 5/9, in hundredths
GtFiveNinths(bc) == bc # NaN /\ 9 * bc > 500

\* compute_bimodality: np.argmax returns a scalar, so local_left_ind[0]
\* raises inside the try block and the except branch always answers with
\* estimate_bimodality's sigma_max.
compute_bimodality(obj) == obj.bt_max

\* get_metric, optimization branch
get_metric(obj) ==
    [ashman        |-> obj.ashman,
     bhc           |-> obj.bhc,
     surface_ratio |-> obj.surface_ratio,
     bm_coeff      |-> compute_bimodality(obj),
     bc_coeff      |-> obj.bc_coeff]

\* A plausible slip: surface ratio and bimodality coefficient read each
\* other's threshold.
compute_metric_swapped(obj, thresholds) ==
    IF obj.optimization /\ obj.n > 4
    THEN LET m == get_metric(obj)
             bm_coeff_bool == Gt(m.bm_coeff, thresholds[3])
             ashman_bool == Gt(m.ashman, thresholds[1])
             surface_ratio_bool == Gt(m.surface_ratio, thresholds[4])
             bc_coeff_bool == GtFiveNinths(m.bc_coeff)
             bimodal_metrics == BoolToInt(ashman_bool) + BoolToInt(bm_coeff_bool)
                                + BoolToInt(bc_coeff_bool)
         IN  (bimodal_metrics >= 2 \/ Gt(m.ashman, AshmanStrong))
             /\ surface_ratio_bool
    ELSE Gt(obj.bt_max, thresholds[3]) /\ Gt(obj.ad_max, AdFallback)

\* compute_metric with its default flags (every caller passes only thresholds)
compute_metric(obj, thresholds) ==
    IF obj.optimization /\ obj.n > 4
    THEN LET m == get_metric(obj)
             bm_coeff_bool == Gt(m.bm_coeff, thresholds[4])
             ashman_bool == Gt(m.ashman, thresholds[1])
             bhc_bool == Gt(m.bhc, thresholds[2])
             surface_ratio_bool == Gt(m.surface_ratio, thresholds[3])
             bc_coeff_bool == GtFiveNinths(m.bc_coeff)
             bimodal_metrics == BoolToInt(ashman_bool) + BoolToInt(bm_coeff_bool)
                                + BoolToInt(bc_coeff_bool)
             bool_set == <<bimodal_metrics >= 2 \/ Gt(m.ashman, AshmanStrong),
                           surface_ratio_bool>>
         IN  \A k \in 1..Len(bool_set) : bool_set[k]
    ELSE Gt(obj.bt_max, thresholds[4]) /\ Gt(obj.ad_max, AdFallback)

----------------------------------------------------------------------------
(* process_dark_land_component                                             *)
(*                                                                         *)
(* args is the record of what the worker is given and what it reads from   *)
(* its window:                                                             *)
(*   sizes, minimum_pixel, thresholds: the arguments;                      *)
(*   count: number of window pixels with water_label == i + 1;             *)
(*   land: number of those pixels with ref_land == 1;                      *)
(*   center: nanmedian of the band inside the component;                   *)
(*   adjacent_low: 15th nanpercentile of the band in the buffer ring;      *)
(*   ninvalid: number of NaN or zero values of the band in the ring;       *)
(*   nvalid: len(intensity_array) after dropping NaN and zero;             *)
(*   obj: the BimodalityMetrics object built from intensity_array.         *)

\* the literal 0.8 of `ref_land_portion > 0.8`, in hundredths
LandDominant == 80

\* the literal 4 of `len(intensity_array) > 4`
MinSample == 4

\* np.isnan(np.nanmean(ref_land[mask])): the mean of an empty selection
PortionIsNaN(args) == args.count = 0

\* ref_land_portion > 0.8
LandPortionHigh(args) ==
    ~PortionIsNaN(args) /\ 100 * args.land > LandDominant * args.count

\* Whether the call ends in an exception instead of a verdict: nothing
\* guards BimodalityMetrics(intensity_array) or compute_metric, so what the
\* constructor raises leaves the worker.
process_dark_land_component_raises(args) ==
    /\ args.sizes >= args.minimum_pixel /\ ~PortionIsNaN(args)
    /\ LandPortionHigh(args)
    /\ ~Gt(args.center, args.adjacent_low)
    /\ args.nvalid > MinSample
    /\ args.obj.error # "none"

\* A plausible slip: the sample is counted before NaN and zero are dropped.
process_dark_land_component_undropped(args) ==
    IF args.sizes >= args.minimum_pixel /\ ~PortionIsNaN(args)
    THEN IF LandPortionHigh(args)
         THEN IF Gt(args.center, args.adjacent_low)
              THEN FALSE
              ELSE IF args.nvalid + args.ninvalid > MinSample
                   THEN compute_metric(args.obj, args.thresholds)
                   ELSE FALSE
         ELSE TRUE
    ELSE FALSE

\* A plausible slip: the size test is dropped.
process_dark_land_component_nosize(args) ==
    IF ~PortionIsNaN(args)
    THEN IF LandPortionHigh(args)
         THEN IF Gt(args.center, args.adjacent_low)
              THEN FALSE
              ELSE IF args.nvalid > MinSample
                   THEN compute_metric(args.obj, args.thresholds)
                   ELSE FALSE
         ELSE TRUE
    ELSE FALSE

\* A plausible slip: the land-dominance test is inverted.
process_dark_land_component_inverted(args) ==
    IF args.sizes >= args.minimum_pixel /\ ~PortionIsNaN(args)
    THEN IF ~LandPortionHigh(args)
         THEN IF Gt(args.center, args.adjacent_low)
              THEN FALSE
              ELSE IF args.nvalid > MinSample
                   THEN compute_metric(args.obj, args.thresholds)
                   ELSE FALSE
         ELSE TRUE
    ELSE FALSE

\* bimodality_array_i, the verdict process_dark_land_component returns
process_dark_land_component(args) ==
    IF args.sizes >= args.minimum_pixel /\ ~PortionIsNaN(args)
    THEN IF LandPortionHigh(args)
         THEN IF Gt(args.center, args.adjacent_low)
              THEN FALSE
              ELSE IF args.nvalid > MinSample
                   THEN compute_metric(args.obj, args.thresholds)
                   ELSE FALSE
         ELSE TRUE
    ELSE FALSE

----------------------------------------------------------------------------
(* process_bright_water_component and the driver's verdict on its result   *)
(*                                                                         *)
(* args is the record of what the worker is given and what it reads:       *)
(*   threshold: the [bt, ad] thresholds, threshold[k] in Python being      *)
(*              threshold[k + 1] here;                                     *)
(*   count: number of window pixels with output_water == ind + 1;          *)
(*   water: number of those with ref_land == 0 or landcover == 0;          *)
(*   est: what estimate_bimodality returns on the ring sample, <<bt, ad>>. *)

\* the literal 0.99 of `landcover_portion > 0.99`, in hundredths
WaterDominant == 99

\* the literal 0.5 added to both thresholds, in hundredths
RejectOffset == 50

\* landcover_portion > 0.99 (landcover_portion is 0 for an empty selection)
WaterPortionHigh(args) ==
    args.count > 0 /\ 100 * args.water > WaterDominant * args.count

\* A plausible slip: the default is set below the thresholds.
process_bright_water_component_low(args) ==
    IF WaterPortionHigh(args)
    THEN args.est
    ELSE <<args.threshold[1] - RejectOffset, args.threshold[2] - RejectOffset>>

\* <<bt_value, ad_value>> as process_bright_water_component returns them
process_bright_water_component(args) ==
    IF WaterPortionHigh(args)
    THEN args.est
    ELSE <<args.threshold[1] + RejectOffset, args.threshold[2] + RejectOffset>>

\* bimodality_bright_water: (bt_value < threshold[0]) | (ad_value < threshold[1])
bimodality_bright_water(res, threshold) ==
    Lt(res[1], threshold[1]) \/ Lt(res[2], threshold[2])

----------------------------------------------------------------------------
(* Inputs of the classifier calls.                                         *)

\* thresholds=[1.5, 0.97, 0.1, 0.7], the default of compute_metric, and a
\* second setting: [ashman, bhc, surface_ratio, bm]
ThresholdSets == {<<150, 97, 10, 70>>, <<200, 90, 30, 50>>}

\* threshold=[0.7, 1.5], the default of fill_gap_water_bimodality_parallel,
\* and a second setting: [bt, ad]
BrightThresholdSets == {<<70, 150>>, <<50, 200>>}

\* largest component size given to a classifier call
MaxSize == 5

BimodalityObjects ==
    [error         : {"none"},
     optimization  : BOOLEAN,
     n             : {3, 5},
     ashman        : {100, 180, 400},
     bhc           : {80, 99},
     surface_ratio : {5, 20, 80},
     valley        : {60},
     bc_coeff      : {40, 60},
     bt_max        : {5, 40, 60, 80, NaN},
     ad_max        : {100, 200, NaN}]

\* BimodalityMetrics(intensity_array) raised: threshold_otsu,
\* threshold_multiotsu and the selection of the level run outside the
\* constructor's try block
FailedConstruction ==
    [error |-> "ValueError", optimization |-> FALSE, n |-> 5, ashman |-> 100,
     bhc |-> 99, surface_ratio |-> 5, valley |-> 60, bc_coeff |-> 60,
     bt_max |-> NaN, ad_max |-> NaN]

\* the objects a dark-land call may meet: fit succeeded or failed, bimodal
\* or not, or no object at all
DarkObjects ==
    {o \in BimodalityObjects :
        /\ o.n = 5 /\ o.bhc = 99 /\ o.bc_coeff = 60
        /\ o.ashman \in {100, 400} /\ o.surface_ratio \in {5, 80}
        /\ o.bt_max \in {5, 80} /\ o.ad_max \in {100, 200}}
    \cup {FailedConstruction}

MetricCalls ==
    {[fn |-> "compute_metric", args |-> [obj |-> o, thresholds |-> t],
      done |-> FALSE, ret |-> FALSE] :
        o \in BimodalityObjects, t \in ThresholdSets}

DarkArgs ==
    {a \in [sizes         : 1..MaxSize,
            minimum_pixel : {2, 4},
            thresholds    : {<<150, 97, 10, 70>>},
            count         : 0..MaxSize,
            land          : 0..MaxSize,
            center        : {10, 30, NaN},
            adjacent_low  : {20, NaN},
            ninvalid      : {0, 1},
            nvalid        : {4, 5},
            obj           : DarkObjects] :
        /\ a.count \in {0, a.sizes} /\ a.land <= a.count
        /\ a.ninvalid = 1 => a.nvalid = 4}

DarkCalls ==
    {[fn |-> "dark_land", args |-> a, done |-> FALSE, raised |-> FALSE,
      ret |-> FALSE] : a \in DarkArgs}

BrightArgs ==
    {a \in [sizes     : 1..MaxSize,
            threshold : BrightThresholdSets,
            count     : 0..MaxSize,
            water     : 0..MaxSize,
            est       : {5, 60, 80, 300, NaN} \X {100, 180, 300, NaN}] :
        a.count \in {0, a.sizes} /\ a.water <= a.count}

BrightCalls ==
    {[fn |-> "bright_water", args |-> a, done |-> FALSE, ret |-> FALSE,
      res |-> <<NaN, NaN>>] : a \in BrightArgs}

\* no classifier call under test
NoCall == [fn |-> "none", done |-> TRUE]

(* BimodalityMetrics.__init__                                              *)
(*                                                                         *)
(* A sample is the record of what the constructor learns of int_db         *)
(* through the library calls it makes, in hundredths of dB:                *)
(*   otsu: threshold_otsu(int_db);                                         *)
(*   nvalues: the number of distinct values of int_db (1: constant);       *)
(*   multi: the levels threshold_multiotsu(int_db) returns when it         *)
(*          returns;                                                       *)
(*   left, right: len(left_sample), len(right_sample) for the threshold    *)
(*          selected;                                                      *)
(*   mean_lt, std_lt, mean_gt, std_gt: mean and std of the two samples;    *)
(*   converges: whether curve_fit, started from a feasible guess, returns  *)
(*          parameters (else it raises RuntimeError);                      *)
(*   fit: ashman, bhc and surface_ratio as the fitted modes give them;     *)
(*   n, valley, bc_coeff, bt_max, ad_max: as in the object.                *)

\* gauss_dist_thres_bound=[-18, 0]
gauss_dist_thres_bound == <<-1800, 0>>

\* classes=3, the default of threshold_multiotsu
MultiOtsuClasses == 3

\* bounds=((-30, 1e-10, 0, ...), (5, 5, 1, ...)) of curve_fit: the mean and
\* std bounds; 1e-10 lies between 0 and the smallest positive std here
FitMeanBounds == <<-3000, 500>>
FitStdUpper == 500

\* threshold_multiotsu(int_db) raises ValueError on a sample with fewer
\* distinct values than classes
threshold_multiotsu_raises(s) == s.nvalues < MultiOtsuClasses

\* self.threshold_global_otsu after the selection, or the exception the
\* selection raises: threshold_otsu, threshold_multiotsu and the indexing
\* of np.where(...)[0][0] all run outside the try block
threshold_global_otsu(s) ==
    IF s.otsu < gauss_dist_thres_bound[1]
    THEN IF threshold_multiotsu_raises(s)
         THEN [error |-> "ValueError", threshold |-> s.otsu]
         ELSE IF \E k \in 1..Len(s.multi) :
                    s.multi[k] >= gauss_dist_thres_bound[1]
              THEN LET ind == {k \in 1..Len(s.multi) :
                                 /\ s.multi[k] > gauss_dist_thres_bound[1]
                                 /\ s.multi[k] < gauss_dist_thres_bound[2]}
                   IN  IF ind = {}
                       THEN [error |-> "IndexError", threshold |-> s.otsu]
                       ELSE [error |-> "none",
                             threshold |-> s.multi[CHOOSE k \in ind :
                                              \A k2 \in ind : k <= k2]]
              ELSE [error |-> "none", threshold |-> s.otsu]
    ELSE [error |-> "none", threshold |-> s.otsu]

\* mean_lt, std_lt, mean_gt, std_gt: the starting values of the fit
expected(s, threshold) ==
    IF s.left > 0 /\ s.right > 0
    THEN [mean_lt |-> s.mean_lt, std_lt |-> s.std_lt,
          mean_gt |-> s.mean_gt, std_gt |-> s.std_gt]
    ELSE [mean_lt |-> threshold - 100, std_lt |-> 100,
          mean_gt |-> threshold + 100, std_gt |-> 100]

\* what curve_fit raises: ValueError on a starting value outside the
\* bounds, RuntimeError when the least squares do not converge
curve_fit(s, x0) ==
    IF \/ x0.mean_lt < FitMeanBounds[1] \/ x0.mean_lt > FitMeanBounds[2]
       \/ x0.mean_gt < FitMeanBounds[1] \/ x0.mean_gt > FitMeanBounds[2]
       \/ x0.std_lt <= 0 \/ x0.std_lt > FitStdUpper
       \/ x0.std_gt <= 0 \/ x0.std_gt > FitStdUpper
    THEN "ValueError"
    ELSE IF s.converges THEN "none" ELSE "RuntimeError"

\* A plausible slip: the starting values are checked before the try block,
\* so that an infeasible guess leaves the constructor.
BimodalityMetrics_unguarded(s) ==
    LET selected == threshold_global_otsu(s)
        fitted == curve_fit(s, expected(s, selected.threshold))
        failed == selected.error # "none" \/ fitted = "ValueError"
        optimization == ~failed /\ fitted = "none"
    IN  [error         |-> IF selected.error # "none" THEN selected.error
                           ELSE IF failed THEN fitted ELSE "none",
         threshold_global_otsu |-> selected.threshold,
         optimization  |-> optimization,
         n             |-> s.n,
         ashman        |-> IF optimization THEN s.fit.ashman ELSE NaN,
         bhc           |-> IF optimization THEN s.fit.bhc ELSE NaN,
         surface_ratio |-> IF optimization THEN s.fit.surface_ratio ELSE NaN,
         valley        |-> s.valley,
         bc_coeff      |-> s.bc_coeff,
         bt_max        |-> s.bt_max,
         ad_max        |-> s.ad_max]

\* The object the constructor leaves, with its selected threshold; error
\* is the exception when it raises.  The bare `except:` around curve_fit
\* turns every failure of the fit into optimization = False.
BimodalityMetrics(s) ==
    LET selected == threshold_global_otsu(s)
        fitted == curve_fit(s, expected(s, selected.threshold))
        optimization == selected.error = "none" /\ fitted = "none"
    IN  [error         |-> selected.error,
         threshold_global_otsu |-> selected.threshold,
         optimization  |-> optimization,
         n             |-> s.n,
         ashman        |-> IF optimization THEN s.fit.ashman ELSE NaN,
         bhc           |-> IF optimization THEN s.fit.bhc ELSE NaN,
         surface_ratio |-> IF optimization THEN s.fit.surface_ratio ELSE NaN,
         valley        |-> s.valley,
         bc_coeff      |-> s.bc_coeff,
         bt_max        |-> s.bt_max,
         ad_max        |-> s.ad_max]

\* the level pairs explored: both below the window, one inside, one on its
\* lower edge, one above it, one inside and one above
MultiLevels ==
    {<<-2800, -2200>>, <<-2500, -1200>>, <<-2500, -1800>>, <<-2500, 100>>,
     <<-1200, 100>>}

\* The samples explored.  A constant sample has one distinct value, which
\* threshold_otsu returns, and nothing on either side of it.
Samples ==
    {s \in [otsu      : {-2500, -1000},
            nvalues   : {1, 3},
            multi     : MultiLevels,
            left      : {0, 2},
            right     : {0, 2},
            mean_lt   : {-3500, -2200},
            std_lt    : {0, 100},
            mean_gt   : {-1000},
            std_gt    : {100},
            converges : BOOLEAN,
            fit       : {[ashman |-> 400, bhc |-> 99, surface_ratio |-> 80]},
            n         : {5},
            valley    : {60},
            bc_coeff  : {60},
            bt_max    : {5, 80},
            ad_max    : {100, 200}] :
        /\ s.nvalues = 1 => (s.left = 0 /\ s.right = 0)
        /\ s.mean_lt = -3500 => s.std_lt = 100}

ConstructCalls ==
    {[fn |-> "bimodality_metrics",
      args |-> [sample |-> s, thresholds |-> <<150, 97, 10, 70>>],
      done |-> FALSE, raised |-> FALSE, ret |-> FALSE,
      obj |-> FailedConstruction] : s \in Samples}

\* BimodalityMetrics(intensity_array).compute_metric(thresholds=thresholds)
CallBimodalityMetrics ==
    /\ call.fn = "bimodality_metrics" /\ ~call.done
    /\ \E obj \in {BimodalityMetrics(call.args.sample)} :
          IF obj.error # "none"
          THEN call' = [call EXCEPT !.done = TRUE, !.raised = TRUE,
                                    !.obj = obj]
          ELSE call' = [call EXCEPT !.done = TRUE, !.obj = obj,
                                    !.ret = compute_metric(
                                                obj, call.args.thresholds)]
    /\ UNCHANGED driverVars

(* One call of each classifier on the chosen input.                        *)

CallComputeMetric ==
    /\ call.fn = "compute_metric" /\ ~call.done
    /\ call' = [call EXCEPT !.done = TRUE,
                            !.ret = compute_metric(call.args.obj,
                                                   call.args.thresholds)]
    /\ UNCHANGED driverVars

\* the call returns its verdict or raises
CallDarkLand ==
    /\ call.fn = "dark_land" /\ ~call.done
    /\ IF process_dark_land_component_raises(call.args)
       THEN call' = [call EXCEPT !.done = TRUE, !.raised = TRUE]
       ELSE call' = [call EXCEPT !.done = TRUE,
                                !.ret = process_dark_land_component(call.args)]
    /\ UNCHANGED driverVars

\* the worker's return value and the verdict the driver derives from it
CallBrightWater ==
    /\ call.fn = "bright_water" /\ ~call.done
    /\ LET res == process_bright_water_component(call.args)
       IN  call' = [call EXCEPT !.done = TRUE,
                                !.res = res,
                                !.ret = bimodality_bright_water(
                                            res, call.args.threshold)]
    /\ UNCHANGED driverVars

----------------------------------------------------------------------------
(* Rasters.  A raster is a function from Pixels to integers; pixel p lies  *)
(* in row p \div Cols and column p % Cols.                                 *)

\* meta_info['length'] and meta_info['width'] of the rasters explored
Rows == 4
Cols == 2

\* at most this many pixels of the input mask are set
MaxWater == 2

\* at most this many set pixels of the input mask are no-data (fill phase)
MaxNoData == 1

Pixels == 0..(Rows * Cols - 1)
RowOf(p) == p \div Cols
ColOf(p) == p % Cols

MinOf(S) == CHOOSE x \in S : \A y \in S : x <= y
MaxOf(S) == CHOOSE x \in S : \A y \in S : x >= y

\* np.zeros of the raster shape
ZeroRaster == [p \in Pixels |-> 0]

\* the pixels of a raster holding a non-zero value
Support(raster) == {p \in Pixels : raster[p] # 0}

\* dswx_sar_util.block_param_generator with pad_shape (0, 0): consecutive
\* blocks of lines_per_block rows, the last one taking the leftover rows
block_param_generator(lpb, rows) ==
    LET num_blocks == (rows + lpb - 1) \div lpb
    IN  [b \in 1..num_blocks |->
            [read_start_line |-> (b - 1) * lpb,
             block_length    |-> IF b = num_blocks
                                 THEN rows - (b - 1) * lpb
                                 ELSE lpb]]

\* whether a pixel lies in the rows a block covers
InBlock(p, bp) ==
    /\ RowOf(p) >= bp.read_start_line
    /\ RowOf(p) < bp.read_start_line + bp.block_length

\* the pixels of the rows a block covers
BlockPixels(bp) == {p \in Pixels : InBlock(p, bp)}

\* dswx_sar_util.write_raster_block: the block's rows are replaced; writing
\* the block that starts at line 0 creates the file anew
write_raster_block(file, data, bp) ==
    [p \in Pixels |->
        IF InBlock(p, bp) THEN data[p]
        ELSE IF bp.read_start_line = 0 THEN 0 ELSE file[p]]

\* A plausible slip: a layer counts where it differs from its value.
merge_binary_layers_differs(layer_list, value_list) ==
    [p \in Pixels |->
        BoolToInt(\E k \in 1..Len(layer_list) : layer_list[k][p] # value_list[k])]

\* dswx_sar_util.merge_binary_layers, mode 'or': a pixel is set when some
\* layer holds that layer's value there
merge_binary_layers(layer_list, value_list) ==
    [p \in Pixels |->
        BoolToInt(\E k \in 1..Len(layer_list) : layer_list[k][p] = value_list[k])]

----------------------------------------------------------------------------
(* cv2.connectedComponentsWithStats, connectivity 8                        *)

\* 8-neighbours
Adjacent(p, q) ==
    /\ p # q
    /\ RowOf(p) - RowOf(q) \in {-1, 0, 1}
    /\ ColOf(p) - ColOf(q) \in {-1, 0, 1}

RECURSIVE Reach(_, _)
\* the pixels of S connected to the pixels of F
Reach(S, F) ==
    LET N == F \cup {q \in S : \E p \in F : Adjacent(p, q)}
    IN  IF N = F THEN F ELSE Reach(S, N)

\* the 8-connected components of a set of pixels
ComponentsOf(S) == {Reach(S, {p}) : p \in S}

RECURSIVE InScanOrder(_)
\* components numbered in the order a raster scan meets them
InScanOrder(cs) ==
    IF cs = {} THEN <<>>
    ELSE LET first == CHOOSE K \in cs : \A K2 \in cs : MinOf(K) <= MinOf(K2)
         IN  <<first>> \o InScanOrder(cs \ {first})

\* the components of a block's mask as a sequence: component ind (from 0)
\* is element ind + 1 and carries label ind + 1
connectedComponentsWithStats(S) == InScanOrder(ComponentsOf(S))

\* output_water: the label of every pixel of the block, 0 for background
LabelImage(comps) ==
    [p \in Pixels |->
        IF \E k \in 1..Len(comps) : p \in comps[k]
        THEN CHOOSE k \in 1..Len(comps) : p \in comps[k]
        ELSE 0]

\* stats_water of one component, rows counted from the block's first row
StatsOf(K, bp) ==
    LET rs == {RowOf(p) : p \in K}
        cs == {ColOf(p) : p \in K}
    IN  [bbox_x |-> MinOf(cs),
         bbox_y |-> MinOf(rs) - bp.read_start_line,
         bbox_w |-> MaxOf(cs) - MinOf(cs) + 1,
         bbox_h |-> MaxOf(rs) - MinOf(rs) + 1,
         size   |-> Cardinality(K)]

\* int((np.sqrt(2) - 1.2) * np.sqrt(size)): the largest m with
\* m <= (sqrt(2) - 1.2) * sqrt(size), squared twice to stay in integers
Margin(size) ==
    MaxOf({m \in 0..size :
             /\ 344 * size >= 100 * m * m
             /\ 115200 * size * size
                  <= (344 * size - 100 * m * m) * (344 * size - 100 * m * m)})

----------------------------------------------------------------------------
(* What the two drivers share.                                             *)

\* the polarizations the drivers test: ['VV', 'VH', 'HH', 'HV']
ValidPols == {"VV", "VH", "HH", "HV"}

\* the pol_list arguments explored: one or two tested polarizations, no
\* tested polarization, and a derived band ('ratio', as run() appends from
\* polarimetric_option) after or before a tested one
PolLists ==
    {<<"VV">>, <<"ratio">>, <<"VV", "VH">>, <<"VV", "ratio">>,
     <<"ratio", "VV">>}

\* lines_per_block_set = [input_lines_per_block, rows]
lines_per_block_set == <<lines_per_block, Rows>>

\* the block the driver is about to process
CurrentBlock ==
    block_param_generator(lines_per_block_set[block_iter + 1], Rows)[block_ind + 1]

\* the raster behind water_mask_path / bright_water_path
MaskFile == IF mask_src = "input" THEN input_mask ELSE check_file

\* block_param.block_length + block_param.read_start_line >= rows
IsLastBlock(bp) == bp.block_length + bp.read_start_line >= Rows

\* np.searchsorted(old_val, label) with old_val = np.arange(1, n + 1) - .1,
\* in hundredths: the number of entries of old_val below the label
index_array_to_image(n, label) ==
    Cardinality({k \in 1..n : 100 * k - 10 < 100 * label})

\* array[index] of a Python array held as a sequence
At(array, index) == array[index + 1]

RECURSIVE ResultsOf(_, _)
\* what Parallel(...) returns for the indices of index_set: one result per
\* task, in the order of args_list, which is the order of
\* component_data.keys() (ascending)
ResultsOf(index_set, verdict) ==
    IF index_set = {} THEN <<>>
    ELSE <<[ind |-> MinOf(index_set), verdict |-> verdict[MinOf(index_set)]]>>
         \o ResultsOf(index_set \ {MinOf(index_set)}, verdict)

RECURSIVE AssignResults_unchecked(_, _)
\* A plausible slip: the verdict is stored but the component is not
\* recorded as checked.
AssignResults_unchecked(arrays, results) ==
    IF Len(results) = 0 THEN arrays
    ELSE AssignResults_unchecked(
             [bimodality_output |->
                  [i \in 1..Len(arrays.bimodality_output) |->
                      IF i = Head(results).ind + 1
                      THEN BoolToInt(Head(results).verdict)
                      ELSE arrays.bimodality_output[i]],
              check_output |-> arrays.check_output],
             Tail(results))

RECURSIVE AssignResults_positional(_, _)
\* A plausible slip: a result is stored at the slot of its place in the
\* list, not at the slot of the index it carries.
AssignResults_positional(arrays, results) ==
    IF Len(results) = 0 THEN arrays
    ELSE AssignResults_positional(
             [bimodality_output |->
                  [i \in 1..Len(arrays.bimodality_output) |->
                      IF i = Len(results)
                      THEN BoolToInt(Head(results).verdict)
                      ELSE arrays.bimodality_output[i]],
              check_output |->
                  [i \in 1..Len(arrays.check_output) |->
                      IF i = Len(results) THEN 0
                      ELSE arrays.check_output[i]]],
             Tail(results))

RECURSIVE AssignResults(_, _)
\* `for result in results:` of both drivers: the verdict goes to the slot
\* of the index the result carries, and that slot of check_output is
\* cleared.  arrays: bimodality_output and check_output as sequences.
AssignResults(arrays, results) ==
    IF Len(results) = 0 THEN arrays
    ELSE AssignResults(
             [bimodality_output |->
                  [i \in 1..Len(arrays.bimodality_output) |->
                      IF i = Head(results).ind + 1
                      THEN BoolToInt(Head(results).verdict)
                      ELSE arrays.bimodality_output[i]],
              check_output |->
                  [i \in 1..Len(arrays.check_output) |->
                      IF i = Head(results).ind + 1 THEN 0
                      ELSE arrays.check_output[i]]],
             Tail(results))

\* the pixels of a worker's read window with water_label == ind + 1
WindowComponent(labels, bounds, ind) ==
    {p \in Pixels : /\ ColOf(p) >= bounds.sub_x_start
                    /\ ColOf(p) < bounds.sub_x_end
                    /\ RowOf(p) >= bounds.sub_y_start
                    /\ RowOf(p) < bounds.sub_y_end
                    /\ labels[p] = ind + 1}

\* A plausible slip: the mask path is switched after every block, not after
\* the last one.
Advance_early(bp) ==
    /\ mask_src' = "check"
    /\ IF ~IsLastBlock(bp)
       THEN /\ block_ind' = block_ind + 1
            /\ UNCHANGED <<block_iter, pc>>
       ELSE IF block_iter + 1 < Len(lines_per_block_set)
            THEN /\ block_iter' = block_iter + 1
                 /\ block_ind' = 0
                 /\ UNCHANGED pc
            ELSE /\ pc' = "merge"
                 /\ UNCHANGED <<block_iter, block_ind>>

\* where the driver goes after a block: next block, next pass, or the merge
Advance(bp) ==
    /\ mask_src' = IF IsLastBlock(bp) THEN "check" ELSE mask_src
    /\ IF ~IsLastBlock(bp)
       THEN /\ block_ind' = block_ind + 1
            /\ UNCHANGED <<block_iter, pc>>
       ELSE IF block_iter + 1 < Len(lines_per_block_set)
            THEN /\ block_iter' = block_iter + 1
                 /\ block_ind' = 0
                 /\ UNCHANGED pc
            ELSE /\ pc' = "merge"
                 /\ UNCHANGED <<block_iter, block_ind>>

\* the driver stops on an uncaught exception
Abort ==
    /\ pc' = "error"
    /\ UNCHANGED <<block_iter, block_ind, mask_src>>

\* A plausible slip: the background entry is inserted twice.
ScatterImage_shifted(array, n, output_water) ==
    LET inserted == <<0, 0>> \o array
    IN  [p \in Pixels |->
            At(inserted, index_array_to_image(n, output_water[p]))]

\* array[index_array_to_image] after np.insert(array, 0, 0): the value each
\* pixel receives from a label-indexed array
ScatterImage(array, n, output_water) ==
    LET inserted == <<0>> \o array
    IN  [p \in Pixels |->
            At(inserted, index_array_to_image(n, output_water[p]))]

\* One tested entry of the polarization loop from the fresh arrays to the
\* two images: np.zeros / np.ones, the result loop, np.insert and the
\* scatter through index_array_to_image.  results: the list the pool
\* returned, in the order the loop walks it.
AssignAndScatter(n, results, output_water) ==
    LET assigned == AssignResults([bimodality_output |-> [i \in 1..n |-> 0],
                                   check_output      |-> [i \in 1..n |-> 1]],
                                  results)
    IN  [bimodality_output |-> assigned.bimodality_output,
         check_output      |-> assigned.check_output,
         bimodality_image  |-> ScatterImage(assigned.bimodality_output, n,
                                            output_water),
         check_image       |-> ScatterImage(assigned.check_output, n,
                                            output_water)]

\* largest number of components of a result list under test
MaxResults == 3

\* a label raster with n components of one pixel each
OnePixelLabels(n) == [p \in Pixels |-> IF p < n THEN p + 1 ELSE 0]

\* the result lists of at most n tasks with distinct indices, in every
\* order
ResultLists(n) ==
    UNION {{rs \in [1..m -> [ind : 0..(n - 1), verdict : BOOLEAN]] :
               \A i \in 1..m : \A j \in 1..m :
                   i # j => rs[i].ind # rs[j].ind} : m \in 0..n}

AssignCalls ==
    UNION {{[fn |-> "assign_results", args |-> [n |-> n, results |-> rs],
             done |-> FALSE,
             ret |-> AssignAndScatter(n, <<>>, OnePixelLabels(n))] :
               rs \in ResultLists(n)} : n \in 1..MaxResults}

\* the result loop and the scatter on one result list
CallAssignResults ==
    /\ call.fn = "assign_results" /\ ~call.done
    /\ call' = [call EXCEPT !.done = TRUE,
                            !.ret = AssignAndScatter(
                                        call.args.n, call.args.results,
                                        OnePixelLabels(call.args.n))]
    /\ UNCHANGED driverVars

----------------------------------------------------------------------------
(* remove_false_water_bimodality_parallel: one block of one pass           *)

\* thresholds as run() passes them, at their configured defaults
DriverThresholds == <<150, 97, 10, 70>>

\* a BimodalityMetrics object whose fit failed on a two-cluster sample
BimodalObject ==
    [error |-> "none", optimization |-> FALSE, n |-> 5, ashman |-> 100, bhc |-> 99,
     surface_ratio |-> 5, valley |-> 60, bc_coeff |-> 60,
     bt_max |-> 80, ad_max |-> 200]

\* What a dark-land worker may read for a component.  all_land: whether
\* ref_land is 1 on every pixel of it (else on none).  The three readings:
\* ancillary data says water; land, brighter than the ring; land, darker
\* than the ring with a bimodal ring sample; land, darker than the ring
\* with a ring sample on which BimodalityMetrics raises.
DarkReadings ==
    {[all_land |-> FALSE, center |-> 10, adjacent_low |-> 20, nvalid |-> 5,
      obj |-> BimodalObject],
     [all_land |-> TRUE, center |-> 30, adjacent_low |-> 20, nvalid |-> 5,
      obj |-> BimodalObject],
     [all_land |-> TRUE, center |-> 10, adjacent_low |-> 20, nvalid |-> 5,
      obj |-> BimodalObject],
     [all_land |-> TRUE, center |-> 10, adjacent_low |-> 20, nvalid |-> 5,
      obj |-> FailedConstruction]}

\* What the workers of one component may read, one reading per tested
\* entry: ref_land is the same raster for every polarization.
DarkReadingsOf(tested) ==
    {r \in [tested -> DarkReadings] :
        \A k \in tested : \A k2 \in tested : r[k].all_land = r[k2].all_land}

\* A plausible slip: the boundary test looks at the image's rows, so that a
\* component on a block seam is dispatched.
RemoveEligible_noseam(st, bp, minpix) ==
    /\ st.bbox_y + bp.read_start_line # 0
    /\ st.bbox_y + st.bbox_h + bp.read_start_line # Rows
    /\ st.size >= minpix

\* the test that sends a component to the worker pool
RemoveEligible(st, bp, minpix) ==
    /\ st.bbox_y # 0
    /\ st.bbox_y + st.bbox_h # bp.block_length
    /\ st.size >= minpix

\* sub_y_start and sub_y_end of a dark-land worker's read window on an
\* image of `rows` rows: shifted by the block's first row, clipped to the
\* image
RemoveRowBounds(st, bp, rows) ==
    LET m == Margin(st.size)
        margin == IF m > 1 THEN m ELSE 1
        lo(v) == IF v > 0 THEN v ELSE 0
        hi(v, top) == IF v < top THEN v ELSE top
    IN  [sub_y_start |-> lo(st.bbox_y - margin + bp.read_start_line),
         sub_y_end   |-> hi(st.bbox_y + st.bbox_h + margin + bp.read_start_line,
                            rows)]

\* component_data[ind][2]: the read window of a dark-land worker
RemoveBounds(st, bp) ==
    LET m == Margin(st.size)
        margin == IF m > 1 THEN m ELSE 1
        lo(v) == IF v > 0 THEN v ELSE 0
        hi(v, top) == IF v < top THEN v ELSE top
    IN  [sub_x_start |-> lo(st.bbox_x - margin),
         sub_x_end   |-> hi(st.bbox_x + st.bbox_w + margin, Cols),
         sub_y_start |-> RemoveRowBounds(st, bp, Rows).sub_y_start,
         sub_y_end   |-> RemoveRowBounds(st, bp, Rows).sub_y_end]

\* The block loop's body up to the polarization loop: labelling, the label
\* raster, and component_data.  seen[ind] is the pixel set worker ind
\* treats as its component.
RemoveLabelling ==
    LET bp == CurrentBlock
        water_mask == MaskFile
        comps == connectedComponentsWithStats(
                     {p \in BlockPixels(bp) : water_mask[p] # 0})
        output_water == LabelImage(comps)
        labels == write_raster_block(label_file, output_water, bp)
        index_set == {ind \in 0..(Len(comps) - 1) :
                         RemoveEligible(StatsOf(comps[ind + 1], bp), bp,
                                        minimum_pixel)}
    IN  [bp                  |-> bp,
         water_mask          |-> water_mask,
         comps               |-> comps,
         nb_components_water |-> Len(comps),
         output_water        |-> output_water,
         labels              |-> labels,
         index_set           |-> index_set,
         tested              |-> {k \in 1..Len(pol_list) :
                                     pol_list[k] \in ValidPols},
         seen                |-> [ind \in index_set |->
                                     WindowComponent(
                                         labels,
                                         RemoveBounds(StatsOf(comps[ind + 1], bp),
                                                      bp),
                                         ind)]]

\* `for pol_ind, pol in enumerate(pol_list)` and the assembly of
\* bimodality_total.  reading[ind][k]: what worker ind reads for entry k.
RemovePolLoop(lab, reading) ==
    LET args == [k \in lab.tested |-> [ind \in lab.index_set |->
                    [sizes         |-> Cardinality(lab.comps[ind + 1]),
                     minimum_pixel |-> minimum_pixel,
                     thresholds    |-> DriverThresholds,
                     count         |-> Cardinality(lab.seen[ind]),
                     land          |-> IF reading[ind][k].all_land
                                       THEN Cardinality(lab.seen[ind])
                                       ELSE 0,
                     center        |-> reading[ind][k].center,
                     adjacent_low  |-> reading[ind][k].adjacent_low,
                     ninvalid      |-> 0,
                     nvalid        |-> reading[ind][k].nvalid,
                     obj           |-> reading[ind][k].obj]]]
        \* Parallel(...) re-raises what a worker raised: the entries whose
        \* pool fails, and the entries the driver gets to
        failing == {k \in lab.tested : \E ind \in lab.index_set :
                       process_dark_land_component_raises(args[k][ind])}
        started == {k \in lab.tested : \A k2 \in failing : k <= k2}
        results == [k \in lab.tested |-> [ind \in lab.index_set |->
                       process_dark_land_component(args[k][ind])]]
        \* np.zeros and np.ones of the entry, then the result loop
        fresh == [bimodality_output |->
                      [i \in 1..lab.nb_components_water |-> 0],
                  check_output |->
                      [i \in 1..lab.nb_components_water |-> 1]]
        assigned == [k \in lab.tested |->
                        AssignResults(fresh,
                                      ResultsOf(lab.index_set, results[k]))]
        bimodality_output ==
            [k \in lab.tested |-> assigned[k].bimodality_output]
        \* check_output of the last tested entry
        check_output ==
            IF lab.tested # {}
            THEN assigned[MaxOf(lab.tested)].check_output
            ELSE fresh.check_output
        bimodality_image ==
            [k \in lab.tested |->
                ScatterImage(bimodality_output[k], lab.nb_components_water,
                             lab.output_water)]
    IN  [jobs |-> {[iter    |-> block_iter,
                    block   |-> block_ind,
                    pol_ind |-> k - 1,
                    ind     |-> ind,
                    \* the component of the block that index stands for
                    component |-> lab.comps[ind + 1],
                    pixels  |-> lab.seen[ind],
                    args    |-> args[k][ind],
                    raised  |-> process_dark_land_component_raises(
                                    args[k][ind]),
                    verdict |-> results[k][ind]
                                /\ ~process_dark_land_component_raises(
                                       args[k][ind])] :
                      k \in started, ind \in lab.index_set},
         raised |-> failing # {},
         \* np.nansum over the images of the tested polarizations, then
         \* [output_water == 0] = False; the input block when none is tested
         bimodality_total |->
             IF lab.tested # {}
             THEN [p \in Pixels |->
                     IF lab.output_water[p] = 0 THEN 0
                     ELSE Cardinality({k \in lab.tested :
                                          bimodality_image[k][p] = 1})]
             ELSE lab.water_mask,
         check_image |-> ScatterImage(check_output, lab.nb_components_water,
                                      lab.output_water)]

RemoveBlock ==
    /\ phase = "remove" /\ pc = "block"
    /\ \E lab \in {RemoveLabelling} :
       \E reading \in [lab.index_set -> DarkReadingsOf(lab.tested)] :
          \E loop \in {RemovePolLoop(lab, reading)} :
                /\ label_file' = lab.labels
                /\ jobs' = jobs \cup loop.jobs
                /\ IF loop.raised
                   THEN \* a worker's exception leaves Parallel(...)
                        /\ UNCHANGED <<out_file, check_file>>
                        /\ Abort
                   ELSE /\ out_file' = [out_file EXCEPT ![block_iter + 1] =
                               write_raster_block(@, loop.bimodality_total,
                                                  lab.bp)]
                        /\ IF lab.tested # {}
                           THEN /\ check_file' = write_raster_block(
                                       check_file, loop.check_image, lab.bp)
                                /\ Advance(lab.bp)
                           ELSE \* check_image was never assigned: NameError
                                /\ UNCHANGED check_file
                                /\ Abort
    /\ UNCHANGED <<call, phase, pol_list, lines_per_block, minimum_pixel,
                   input_mask, no_data, result, pre>>

----------------------------------------------------------------------------
(* fill_gap_water_bimodality_parallel: one block of one pass               *)

\* threshold=[bm_threshold, ashman_threshold] as run() passes it, at the
\* configured defaults
DriverBrightThreshold == <<70, 150>>

\* What a bright-water worker may read for a component.  all_water: whether
\* the ancillary rasters say water on every pixel of it (else on none).
\* The three readings: ancillary data says land; water, the ring sample not
\* separated (bt below its threshold); water, the ring sample separated.
BrightReadings ==
    {[all_water |-> FALSE, est |-> <<NaN, NaN>>],
     [all_water |-> TRUE, est |-> <<5, 300>>],
     [all_water |-> TRUE, est |-> <<300, 300>>]}

\* What the workers of one component may read, one reading per tested
\* entry: the ancillary rasters are the same for every polarization.
BrightReadingsOf(tested) ==
    {r \in [tested -> BrightReadings] :
        \A k \in tested : \A k2 \in tested : r[k].all_water = r[k2].all_water}

\* A plausible slip: the boundary test looks at the image's rows, so that a
\* component on a block seam is dispatched.
FillEligible_noseam(st, bp) ==
    /\ st.bbox_y + bp.read_start_line # 0
    /\ st.bbox_y + st.bbox_h + bp.read_start_line # Rows

\* A plausible slip: components below four pixels are not tested, as in the
\* remove phase.
FillEligible_sized(st, bp) ==
    /\ st.bbox_y # 0
    /\ st.bbox_y + st.bbox_h # bp.block_length
    /\ st.size >= 4

\* the test that sends a component to the worker pool
FillEligible(st, bp) ==
    /\ st.bbox_y # 0
    /\ st.bbox_y + st.bbox_h # bp.block_length

\* sub_y_start and sub_y_end of a bright-water worker's read window on an
\* image of `rows` rows
FillRowBounds(st, bp, rows) ==
    LET margin == Margin(st.size)
        lo(v) == IF v > 0 THEN v ELSE 0
        hi(v, top) == IF v < top THEN v ELSE top
    IN  [sub_y_start |-> lo(st.bbox_y - margin + bp.read_start_line),
         sub_y_end   |-> hi(st.bbox_y + st.bbox_h + margin + 1
                              + bp.read_start_line, rows)]

\* component_data[ind][2]: the read window of a bright-water worker
FillBounds(st, bp) ==
    LET margin == Margin(st.size)
        lo(v) == IF v > 0 THEN v ELSE 0
        hi(v, top) == IF v < top THEN v ELSE top
    IN  [sub_x_start |-> lo(st.bbox_x - margin),
         sub_x_end   |-> hi(st.bbox_x + st.bbox_w + margin + 1, Cols),
         sub_y_start |-> FillRowBounds(st, bp, Rows).sub_y_start,
         sub_y_end   |-> FillRowBounds(st, bp, Rows).sub_y_end]

RECURSIVE FillPolLoop(_, _, _)
\* `for pol_ind, pol in enumerate(pol_list)` from its k-th entry on.
\* st holds the loop's local variables: bimodality_output, check_output,
\* args_pol (the entry that built args_list last, 0 while it is unassigned),
\* bimodality_set, check_image, and raised (an uncaught NameError).
\* Only the assignments of the three arrays sit under `if pol in [...]`:
\* the Parallel call and what follows run for every entry.
\* ctx: n, index_set, output_water, verdict (per building entry and
\* component index, the driver's verdict on the worker's result).
FillPolLoop(k, st, ctx) ==
    IF k > Len(pol_list) \/ st.raised THEN st
    ELSE LET tested == pol_list[k] \in ValidPols
             bo0 == IF tested THEN [i \in 1..ctx.n |-> 0]
                    ELSE st.bimodality_output
             co0 == IF tested THEN [i \in 1..ctx.n |-> 1]
                    ELSE st.check_output
             ap == IF tested THEN k ELSE st.args_pol
         IN  IF ap = 0
             THEN [st EXCEPT !.raised = TRUE]
             ELSE LET assigned ==
                          AssignResults(
                              [bimodality_output |-> bo0,
                               check_output      |-> co0],
                              ResultsOf(ctx.index_set, ctx.verdict[ap]))
                      bo1 == assigned.bimodality_output
                      co1 == assigned.check_output
                      bimodality_image ==
                          ScatterImage(bo1, ctx.n, ctx.output_water)
                      check_image ==
                          ScatterImage(co1, ctx.n, ctx.output_water)
                  IN  FillPolLoop(k + 1,
                          [bimodality_output |-> <<0>> \o bo1,
                           check_output      |-> <<0>> \o co1,
                           args_pol          |-> ap,
                           bimodality_set    |->
                               [p \in Pixels |->
                                   st.bimodality_set[p] + bimodality_image[p]],
                           check_image       |-> check_image,
                           raised            |-> FALSE],
                          ctx)

\* A plausible slip: the no-data pixels are not cut out of the mask.
FillLabelling_uncut ==
    LET bp == CurrentBlock
        mask == MaskFile
        water_mask == mask
        comps == connectedComponentsWithStats(
                     {p \in BlockPixels(bp) : water_mask[p] # 0})
        output_water == LabelImage(comps)
        labels == write_raster_block(label_file, output_water, bp)
        index_set == {ind \in 0..(Len(comps) - 1) :
                         FillEligible(StatsOf(comps[ind + 1], bp), bp)}
    IN  [bp                  |-> bp,
         water_mask          |-> water_mask,
         comps               |-> comps,
         nb_components_water |-> Len(comps),
         output_water        |-> output_water,
         labels              |-> labels,
         index_set           |-> index_set,
         tested              |-> {k \in 1..Len(pol_list) :
                                     pol_list[k] \in ValidPols},
         seen                |-> [ind \in index_set |->
                                     WindowComponent(
                                         labels,
                                         FillBounds(StatsOf(comps[ind + 1], bp),
                                                    bp),
                                         ind)]]

\* The block loop's body up to the polarization loop: the no-data cut,
\* labelling, the label raster, and component_data.  seen[ind] is the pixel
\* set worker ind treats as its component.
FillLabelling ==
    LET bp == CurrentBlock
        mask == MaskFile
        \* water_mask[out_boundary == 1] = 0
        water_mask == [p \in Pixels |-> IF no_data[p] = 1 THEN 0 ELSE mask[p]]
        comps == connectedComponentsWithStats(
                     {p \in BlockPixels(bp) : water_mask[p] # 0})
        output_water == LabelImage(comps)
        labels == write_raster_block(label_file, output_water, bp)
        index_set == {ind \in 0..(Len(comps) - 1) :
                         FillEligible(StatsOf(comps[ind + 1], bp), bp)}
    IN  [bp                  |-> bp,
         water_mask          |-> water_mask,
         comps               |-> comps,
         nb_components_water |-> Len(comps),
         output_water        |-> output_water,
         labels              |-> labels,
         index_set           |-> index_set,
         tested              |-> {k \in 1..Len(pol_list) :
                                     pol_list[k] \in ValidPols},
         seen                |-> [ind \in index_set |->
                                     WindowComponent(
                                         labels,
                                         FillBounds(StatsOf(comps[ind + 1], bp),
                                                    bp),
                                         ind)]]

\* The polarization loop and what follows it in the block loop's body.
\* reading[ind][k]: what worker ind reads for entry k.
FillBlockBody(lab, reading) ==
    LET args == [k \in lab.tested |-> [ind \in lab.index_set |->
                    [sizes     |-> Cardinality(lab.comps[ind + 1]),
                     threshold |-> DriverBrightThreshold,
                     count     |-> Cardinality(lab.seen[ind]),
                     water     |-> IF reading[ind][k].all_water
                                   THEN Cardinality(lab.seen[ind])
                                   ELSE 0,
                     est       |-> reading[ind][k].est]]]
        verdict == [k \in lab.tested |-> [ind \in lab.index_set |->
                       bimodality_bright_water(
                           process_bright_water_component(args[k][ind]),
                           DriverBrightThreshold)]]
        final == FillPolLoop(1,
                     [bimodality_output |-> <<>>,
                      check_output      |-> <<>>,
                      args_pol          |-> 0,
                      bimodality_set    |-> ZeroRaster,
                      check_image       |-> ZeroRaster,
                      raised            |-> FALSE],
                     [n            |-> lab.nb_components_water,
                      index_set    |-> lab.index_set,
                      output_water |-> lab.output_water,
                      verdict      |-> verdict])
        \* args_list is built by the first tested entry; an untested first
        \* entry meets it unassigned and no worker runs
        ran == IF pol_list[1] \in ValidPols THEN lab.tested ELSE {}
    IN  [jobs |-> {[iter    |-> block_iter,
                    block   |-> block_ind,
                    pol_ind |-> k - 1,
                    ind     |-> ind,
                    \* the component of the block that index stands for
                    component |-> lab.comps[ind + 1],
                    pixels  |-> lab.seen[ind],
                    args    |-> args[k][ind],
                    \* estimate_bimodality answers NaN where it cannot
                    \* compute; the worker has nothing that raises
                    raised  |-> FALSE,
                    verdict |-> verdict[k][ind]] :
                      k \in ran, ind \in lab.index_set},
         raised |-> final.raised,
         \* bimodality_set > 0, then [output_water == 0] = False
         bimodal_ad_binary |->
             [p \in Pixels |->
                 BoolToInt(final.bimodality_set[p] > 0
                           /\ lab.output_water[p] # 0)],
         check_image |-> final.check_image]

FillBlock ==
    /\ phase = "fill" /\ pc = "block"
    /\ \E lab \in {FillLabelling} :
       \E reading \in [lab.index_set -> BrightReadingsOf(lab.tested)] :
          \E body \in {FillBlockBody(lab, reading)} :
                /\ label_file' = lab.labels
                /\ jobs' = jobs \cup body.jobs
                /\ IF body.raised
                   THEN \* args_list was never assigned: NameError
                        /\ UNCHANGED <<out_file, check_file>>
                        /\ Abort
                   ELSE /\ out_file' = [out_file EXCEPT ![block_iter + 1] =
                               write_raster_block(@, body.bimodal_ad_binary,
                                                  lab.bp)]
                        /\ check_file' = write_raster_block(
                               check_file, body.check_image, lab.bp)
                        /\ Advance(lab.bp)
    /\ UNCHANGED <<call, phase, pol_list, lines_per_block, minimum_pixel,
                   input_mask, no_data, result, pre>>

----------------------------------------------------------------------------
(* The rows a worker of the block pass reads from the label raster.        *)
(*                                                                         *)
(* The rasters above are too small for a margin above 1, which takes a     *)
(* component of 88 pixels; the calls below follow the rows only, on images *)
(* wide enough for such a component.  args:                                *)
(*   driver: "remove" | "fill"; rows: the image's rows; lines_per_block;   *)
(*   block_ind: the block of the block pass; st: bounding box and size of  *)
(*   the component in the block; earlier: the rows of earlier blocks in    *)
(*   which the label raster holds the component's label number inside the  *)
(*   window's columns.                                                     *)

\* the rows in which `water_label == i + 1` holds inside the worker's
\* window: the label raster holds the block's labels in the block's rows,
\* what earlier blocks wrote in theirs, and nothing below the block
WindowRows(args) ==
    LET bp == block_param_generator(args.lines_per_block,
                                    args.rows)[args.block_ind + 1]
        bounds == IF args.driver = "remove"
                  THEN RemoveRowBounds(args.st, bp, args.rows)
                  ELSE FillRowBounds(args.st, bp, args.rows)
        own == {r \in 0..(args.rows - 1) :
                   /\ r >= args.st.bbox_y + bp.read_start_line
                   /\ r < args.st.bbox_y + args.st.bbox_h + bp.read_start_line}
    IN  {r \in own \cup args.earlier :
            r >= bounds.sub_y_start /\ r < bounds.sub_y_end}

\* the components explored: one or two rows high, at the second or third
\* row of the block, with the sizes at which the margin changes
WindowStats ==
    {[bbox_x |-> 0, bbox_y |-> y, bbox_w |-> (n + h - 1) \div h,
      bbox_h |-> h, size |-> n] :
        y \in {1, 2}, h \in {1, 2}, n \in {4, 22, 87, 88}}

\* the calls explored: two blocks of lines_per_block rows and a rest, a
\* component the block dispatches, and the last row of the block before
\* holding the same label number or not
WindowCalls ==
    {c \in [fn   : {"read_window"},
            args : [driver          : {"remove", "fill"},
                    rows            : {9, 10, 11},
                    lines_per_block : {4, 5},
                    block_ind       : {0, 1},
                    st              : WindowStats,
                    earlier         : {{}, {3}, {4}}],
            done : {FALSE},
            ret  : {{}}] :
        LET bp == block_param_generator(c.args.lines_per_block,
                                        c.args.rows)[c.args.block_ind + 1]
        IN  /\ c.args.earlier \subseteq
                   {r \in 0..(c.args.rows - 1) :
                       r = bp.read_start_line - 1}
            /\ IF c.args.driver = "remove"
               THEN RemoveEligible(c.args.st, bp, 1)
               ELSE FillEligible(c.args.st, bp)}

\* the worker reads its window of the label raster and masks its label
CallReadWindow ==
    /\ call.fn = "read_window" /\ ~call.done
    /\ call' = [call EXCEPT !.done = TRUE, !.ret = WindowRows(call.args)]
    /\ UNCHANGED driverVars

----------------------------------------------------------------------------
(* The merge that ends both drivers.                                       *)

\* merge_binary_layers(layer_list=<the two pass rasters>, value_list=[1, 1],
\* mode='or'), then read_geotiff of the merged raster
Merge ==
    /\ pc = "merge"
    /\ result' = merge_binary_layers(out_file, <<1, 1>>)
    /\ pc' = "done"
    /\ UNCHANGED <<call, phase, pol_list, lines_per_block, minimum_pixel,
                   input_mask, no_data, block_iter, block_ind, mask_src,
                   label_file, out_file, check_file, jobs, pre>>

----------------------------------------------------------------------------
(* pre_processing.run (src/src/dswx_sar/pre_processing.py): the ancillary  *)
(* checks, the filtering and the save of the filtered image.               *)
(*                                                                         *)
(* pre is the record                                                       *)
(*   source: the ancillary inputs whose configured file exists;            *)
(*   interpolated: the ancillary inputs with an interpolated raster in the *)
(*                 scratch directory;                                      *)
(*   dem_mean: np.nanmean of the interpolated DEM, "zero" | "nan" |        *)
(*             "valid";                                                    *)
(*   filtered: whether lee_enhanced_filter has run;                        *)
(*   saved: whether filtered_image_<pols>.tif was written in this run;     *)
(*   raised: "none" or the exception that ended the run.                   *)
(* pc is the check the run is about to make.                               *)

\* reference water, DEM, landcover, HAND
Ancillary == {"wbd", "DEM", "landcover", "hand"}

\* no run of pre_processing
NoPre ==
    [source |-> {}, interpolated |-> {}, dem_mean |-> "valid",
     filtered |-> FALSE, saved |-> FALSE, raised |-> "none"]

\* A plausible slip: a source that cannot be opened is skipped in silence.
relocate_silent(p, a) ==
    IF a \in p.source
    THEN [p EXCEPT !.interpolated = @ \cup {a}]
    ELSE p

\* ancillary_reloc._relocate(file, name): gdal.Warp writes the interpolated
\* raster; on a source it cannot open (a missing file, None) the binding
\* raises
relocate(p, a) ==
    IF a \in p.source
    THEN [p EXCEPT !.interpolated = @ \cup {a}]
    ELSE [p EXCEPT !.raised = "GDALError"]

\* what pre_processing.run never touches
preFrame ==
    <<call, phase, pol_list, lines_per_block, minimum_pixel, input_mask,
      no_data, block_iter, block_ind, mask_src, label_file, out_file,
      check_file, jobs, result>>

\* `if not <interpolated path>.is_file(): _relocate(...)`
CheckInterpolated(a, next) ==
    /\ phase = "pre" /\ pc = a
    /\ \E p \in {IF a \in pre.interpolated THEN pre ELSE relocate(pre, a)} :
          /\ pre' = p
          /\ pc' = IF p.raised # "none" THEN "error" ELSE next
    /\ UNCHANGED preFrame

PreWbd == CheckInterpolated("wbd", "DEM")

\* the DEM is the one input whose source file is tested before relocating
PreDem ==
    /\ phase = "pre" /\ pc = "DEM"
    /\ \E p \in {IF "DEM" \in pre.interpolated THEN pre
                 ELSE IF "DEM" \in pre.source THEN relocate(pre, "DEM")
                 ELSE [pre EXCEPT !.raised = "FileNotFoundError"]} :
          /\ pre' = p
          /\ pc' = IF p.raised # "none" THEN "error" ELSE "dem_check"
    /\ UNCHANGED preFrame

\* A plausible slip: only a NaN mean is refused.
PreDemCheck_nan_only ==
    /\ phase = "pre" /\ pc = "dem_check"
    /\ IF pre.dem_mean = "nan"
       THEN /\ pre' = [pre EXCEPT !.raised = "ValueError"]
            /\ pc' = "error"
       ELSE /\ pc' = "landcover"
            /\ UNCHANGED pre
    /\ UNCHANGED preFrame

\* `if (dem_mean == 0) | np.isnan(dem_mean): raise ValueError`
\* (dem_reprocessing_flag is never set, so the check always runs)
PreDemCheck ==
    /\ phase = "pre" /\ pc = "dem_check"
    /\ IF pre.dem_mean \in {"zero", "nan"}
       THEN /\ pre' = [pre EXCEPT !.raised = "ValueError"]
            /\ pc' = "error"
       ELSE /\ pc' = "landcover"
            /\ UNCHANGED pre
    /\ UNCHANGED preFrame

PreLandcover == CheckInterpolated("landcover", "hand")

PreHand == CheckInterpolated("hand", "filter")

\* reading the intensities and filter_SAR.lee_enhanced_filter on each
PreFilter ==
    /\ phase = "pre" /\ pc = "filter"
    /\ pre' = [pre EXCEPT !.filtered = TRUE]
    /\ pc' = "save"
    /\ UNCHANGED preFrame

\* save_raster_gdal(data=intensity_filt, ... filtered_images_str ...)
PreSave ==
    /\ phase = "pre" /\ pc = "save"
    /\ pre' = [pre EXCEPT !.saved = TRUE]
    /\ pc' = "done"
    /\ UNCHANGED preFrame

----------------------------------------------------------------------------
(* Specification                                                           *)

\* the lines_per_block arguments explored
LinesPerBlockChoices == 2..Rows

\* the minimum_pixel arguments explored (remove phase)
MinimumPixelChoices == {1, 2}

\* masks of three pixels in one column: a bar of two rows and a single
\* pixel two rows above it, so that a seam under the bar's first row gives
\* the two halves of the bar different label numbers
SeamMasks ==
    {[p \in Pixels |->
         BoolToInt(ColOf(p) = c /\ RowOf(p) \in {r - 2, r, r + 1})] :
        r \in 2..(Rows - 2), c \in 0..(Cols - 1)}

\* the input masks explored: every mask of up to MaxWater pixels, and the
\* seam masks
InputMasks ==
    {[p \in Pixels |-> BoolToInt(p \in W)] :
        W \in {W \in SUBSET Pixels : Cardinality(W) <= MaxWater}}
    \cup SeamMasks

\* the no-data rasters explored (on pixels of the input mask: elsewhere the
\* drivers never look at them)
NoDataMasks(mask) ==
    {[p \in Pixels |-> BoolToInt(p \in N)] :
        N \in {N \in SUBSET Support(mask) : Cardinality(N) <= MaxNoData}}

InitDriver ==
    /\ call = NoCall
    /\ phase \in {"remove", "fill"}
    /\ pol_list \in PolLists
    /\ lines_per_block \in LinesPerBlockChoices
    /\ minimum_pixel \in MinimumPixelChoices
    \* the fill driver takes no minimum_pixel: the variable then holds the
    \* configured value run() hands to the remove phase only
    /\ phase = "fill" => minimum_pixel = MaxOf(MinimumPixelChoices)
    /\ input_mask \in InputMasks
    /\ no_data \in NoDataMasks(input_mask)
    /\ phase = "remove" => no_data = ZeroRaster
    /\ pc = "block"
    /\ block_iter = 0
    /\ block_ind = 0
    /\ mask_src = "input"
    /\ label_file = ZeroRaster
    /\ out_file = <<ZeroRaster, ZeroRaster>>
    /\ check_file = ZeroRaster
    /\ jobs = {}
    /\ result = ZeroRaster
    /\ pre = NoPre

InitClassifier ==
    /\ call \in MetricCalls \cup DarkCalls \cup BrightCalls \cup AssignCalls
                \cup ConstructCalls \cup WindowCalls
    /\ phase = "none"
    /\ pol_list = <<>>
    /\ lines_per_block = Rows
    /\ minimum_pixel = MinOf(MinimumPixelChoices)
    /\ input_mask = ZeroRaster
    /\ no_data = ZeroRaster
    /\ pc = "idle"
    /\ block_iter = 0
    /\ block_ind = 0
    /\ mask_src = "input"
    /\ label_file = ZeroRaster
    /\ out_file = <<ZeroRaster, ZeroRaster>>
    /\ check_file = ZeroRaster
    /\ jobs = {}
    /\ result = ZeroRaster
    /\ pre = NoPre

\* a run of pre_processing.run: which sources and which interpolated
\* rasters exist on entry, and what the interpolated DEM holds
InitPre ==
    /\ call = NoCall
    /\ phase = "pre"
    /\ pol_list = <<>>
    /\ lines_per_block = Rows
    /\ minimum_pixel = MinOf(MinimumPixelChoices)
    /\ input_mask = ZeroRaster
    /\ no_data = ZeroRaster
    /\ pc = "wbd"
    /\ block_iter = 0
    /\ block_ind = 0
    /\ mask_src = "input"
    /\ label_file = ZeroRaster
    /\ out_file = <<ZeroRaster, ZeroRaster>>
    /\ check_file = ZeroRaster
    /\ jobs = {}
    /\ result = ZeroRaster
    /\ pre \in [source       : SUBSET Ancillary,
                 interpolated : SUBSET Ancillary,
                 dem_mean     : {"zero", "nan", "valid"},
                 filtered     : {FALSE},
                 saved        : {FALSE},
                 raised       : {"none"}]

Init == InitDriver \/ InitClassifier \/ InitPre

Next ==
    \/ CallComputeMetric
    \/ CallDarkLand
    \/ CallBrightWater
    \/ CallAssignResults
    \/ CallBimodalityMetrics
    \/ CallReadWindow
    \/ RemoveBlock
    \/ FillBlock
    \/ Merge
    \/ PreWbd
    \/ PreDem
    \/ PreDemCheck
    \/ PreLandcover
    \/ PreHand
    \/ PreFilter
    \/ PreSave

\* both phases and every classifier
Spec == Init /\ [][Next]_vars

\* BimodalityMetrics.compute_metric alone
InitMetric == InitClassifier /\ call \in MetricCalls

NextMetric == CallComputeMetric

SpecMetric == InitMetric /\ [][NextMetric]_vars

\* pre_processing.run alone
NextPre ==
    \/ PreWbd
    \/ PreDem
    \/ PreDemCheck
    \/ PreLandcover
    \/ PreHand
    \/ PreFilter
    \/ PreSave

SpecPre == InitPre /\ [][NextPre]_vars

\* the constructor of BimodalityMetrics followed by compute_metric
InitConstruct == InitClassifier /\ call \in ConstructCalls

NextConstruct == CallBimodalityMetrics

SpecConstruct == InitConstruct /\ [][NextConstruct]_vars

\* the result loop of the two drivers alone
InitAssign == InitClassifier /\ call \in AssignCalls

NextAssign == CallAssignResults

SpecAssign == InitAssign /\ [][NextAssign]_vars

\* the read windows of the block pass alone
InitWindow == InitClassifier /\ call \in WindowCalls

NextWindow == CallReadWindow

SpecWindow == InitWindow /\ [][NextWindow]_vars

\* the remove phase and its worker
InitRemove ==
    \/ InitDriver /\ phase = "remove"
    \/ InitClassifier /\ call \in DarkCalls

NextRemove ==
    \/ CallDarkLand
    \/ RemoveBlock
    \/ Merge

SpecRemove == InitRemove /\ [][NextRemove]_vars

\* the fill phase and its worker
InitFill ==
    \/ InitDriver /\ phase = "fill"
    \/ InitClassifier /\ call \in BrightCalls

NextFill ==
    \/ CallBrightWater
    \/ FillBlock
    \/ Merge

SpecFill == InitFill /\ [][NextFill]_vars

\* both drivers, without the classifier calls
NextDriver == RemoveBlock \/ FillBlock \/ Merge

SpecDriver == InitDriver /\ [][NextDriver]_vars

----------------------------------------------------------------------------
(* What the properties below speak about.                                  *)

\* the mask the block pass labels: the input, cut by no-data in the fill
\* phase
EffectiveInput ==
    [p \in Pixels |->
        IF phase = "fill" /\ no_data[p] = 1 THEN 0 ELSE input_mask[p]]

\* the blocks of pass `it` the driver has completed
ProcessedBlocks(it) ==
    IF pc \in {"merge", "done"} \/ it < block_iter
    THEN 0..(Len(block_param_generator(lines_per_block_set[it + 1], Rows)) - 1)
    ELSE IF it = block_iter THEN 0..(block_ind - 1) ELSE {}

\* block b of the block pass
BlockOfPass0(b) == block_param_generator(lines_per_block, Rows)[b + 1]

\* the components the block pass finds in its block b
ComponentsOfBlock(b) ==
    connectedComponentsWithStats(
        {p \in BlockPixels(BlockOfPass0(b)) : EffectiveInput[p] # 0})

\* the bounding box includes the block's first or last row
TouchesBlockEdge(K, bp) ==
    LET st == StatsOf(K, bp)
    IN  st.bbox_y = 0 \/ st.bbox_y + st.bbox_h = bp.block_length

\* the full check raster is the block pass's until the full-image pass
\* rewrites it
CheckIsOfBlockPass == pc \notin {"merge", "done"}

----------------------------------------------------------------------------
(* C1.  Block pass of both drivers: a component of a block whose bounding  *)
(* box includes the block's first or last row is not dispatched, all its   *)
(* pixels are False in the block-pass output, and its check flag is 1.     *)
BoundaryComponentsDeferred ==
    \A b \in ProcessedBlocks(0) :
        LET comps == ComponentsOfBlock(b)
        IN  \A i \in 1..Len(comps) :
                TouchesBlockEdge(comps[i], BlockOfPass0(b)) =>
                    /\ ~ \E j \in jobs :
                            j.iter = 0 /\ j.block = b /\ j.ind = i - 1
                    /\ \A p \in comps[i] : out_file[1][p] = 0
                    /\ CheckIsOfBlockPass =>
                           \A p \in comps[i] : check_file[p] = 1

(* C2.  A component the block pass did not classify and whose full-image   *)
(* size is at least minimum_pixel is dispatched in the full-image pass, on *)
(* its complete 8-connected extent in the original mask.                   *)
DeferredComponentsReclassified ==
    pc \in {"merge", "done"} =>
        LET classified0 == UNION {j.component : j \in {j \in jobs : j.iter = 0}}
        IN  \A K \in ComponentsOf(Support(EffectiveInput)) :
                (K \cap classified0 = {} /\ Cardinality(K) >= minimum_pixel) =>
                    \E j \in jobs :
                        j.iter = 1 /\ j.component = K /\ j.pixels = K

(* C3.  The value a phase returns is True at a pixel iff the pixel is True *)
(* in the block-pass output raster or in the full-image-pass output        *)
(* raster.                                                                 *)
MergeIsOrOfPasses ==
    pc = "done" =>
        \A p \in Pixels :
            (result[p] = 1) <=> (out_file[1][p] # 0 \/ out_file[2][p] # 0)

(* C4.  In each pass a pixel receives the verdict recorded for the         *)
(* component that carries its label (False for label 0), and so the final  *)
(* mask is True at a pixel iff a component covering it received verdict    *)
(* True in one of the two passes.                                          *)
ScatterFollowsVerdicts ==
    /\ \A it \in {0, 1} : \A p \in Pixels :
          (\E b \in ProcessedBlocks(it) :
              InBlock(p, block_param_generator(lines_per_block_set[it + 1],
                                               Rows)[b + 1]))
          => ((out_file[it + 1][p] # 0)
                 <=> \E j \in jobs : j.iter = it /\ p \in j.component
                                     /\ j.verdict)
    /\ pc = "done" =>
          \A p \in Pixels :
              (result[p] = 1)
                 <=> \E j \in jobs : p \in j.component /\ j.verdict

(* C5.  Dark-land test: a component with size < minimum_pixel gets verdict *)
(* False from process_dark_land_component, and its pixels are False in the *)
(* final mask of the remove phase, whatever its land portion or intensity. *)
SmallDarkLandRejected ==
    /\ (call.fn = "dark_land" /\ call.done
        /\ call.args.sizes < call.args.minimum_pixel)
       => call.ret = FALSE
    /\ (phase = "remove" /\ pc = "done")
       => \A K \in ComponentsOf(Support(input_mask)) :
              Cardinality(K) < minimum_pixel =>
                  \A p \in K : result[p] = 0

\* a small component over water that only the size test rejects
SmallDarkLandRejectedWitness ==
    /\ call.fn = "dark_land" /\ call.done
    /\ call.args.sizes < call.args.minimum_pixel
    /\ call.args.count > 0
    /\ call.args.land = 0
    /\ call.ret = FALSE

(* C6.  Dark-land test: with size >= minimum_pixel and land portion <= 0.8 *)
(* the verdict is True, whatever the intensities of the component and its  *)
(* surroundings.                                                           *)
WaterDominantAccepted ==
    (call.fn = "dark_land" /\ call.done
     /\ call.args.sizes >= call.args.minimum_pixel
     /\ call.args.count > 0
     /\ 100 * call.args.land <= 80 * call.args.count)
    => call.ret = TRUE

\* accepted although brighter than the ring and with too small a sample
WaterDominantAcceptedWitness ==
    /\ call.fn = "dark_land" /\ call.done
    /\ call.args.sizes >= call.args.minimum_pixel
    /\ call.args.count > 0
    /\ 100 * call.args.land <= 80 * call.args.count
    /\ call.args.land > 0
    /\ Gt(call.args.center, call.args.adjacent_low)
    /\ call.args.nvalid <= 4
    /\ call.ret = TRUE

(* C7.  Dark-land test: with size >= minimum_pixel and land portion > 0.8, *)
(* a component whose median intensity is greater than the 15th percentile  *)
(* of the adjacent ring gets verdict True.                                 *)
BrighterThanRingAccepted ==
    (call.fn = "dark_land" /\ call.done
     /\ call.args.sizes >= call.args.minimum_pixel
     /\ call.args.count > 0
     /\ 100 * call.args.land > 80 * call.args.count
     /\ Gt(call.args.center, call.args.adjacent_low))
    => call.ret = TRUE

BrightDefaultRejects ==
    /\ (call.fn = "bright_water" /\ call.done)
       => LET a == call.args
              water_high == a.count > 0 /\ 100 * a.water > 99 * a.count
              passes == \/ Lt(a.est[1], a.threshold[1])
                        \/ Lt(a.est[2], a.threshold[2])
          IN  /\ ~water_high
                 => /\ call.res = <<a.threshold[1] + 50, a.threshold[2] + 50>>
                    /\ call.ret = FALSE
              /\ call.ret = TRUE => (water_high /\ passes)
    /\ (phase = "fill" /\ pc = "done")
       => \A K \in ComponentsOf(Support(EffectiveInput)) :
              (\E p \in K : result[p] = 1)
              => \E j \in jobs :
                    /\ j.component = K
                    /\ j.args.count > 0
                    /\ 100 * j.args.water > 99 * j.args.count
                    /\ \/ Lt(j.args.est[1], j.args.threshold[1])
                       \/ Lt(j.args.est[2], j.args.threshold[2])

WorkerFailureIsolated ==
    /\ (/\ call.fn = "dark_land" /\ call.done
        /\ call.args.sizes >= call.args.minimum_pixel
        /\ call.args.count > 0
        /\ 100 * call.args.land > 80 * call.args.count
        /\ ~Gt(call.args.center, call.args.adjacent_low)
        /\ call.args.nvalid >= 5
        /\ call.args.obj.error # "none")
       => (~call.raised /\ call.ret = FALSE)
    /\ \A j \in jobs : j.raised => pc # "error"

(* C12.  Order independence: whatever the order in which the tasks of a    *)
(* block complete and their results are processed, the verdict array, the  *)
(* check array, the block output and the check mask are the same.          *)
ResultOrderIrrelevant ==
    (call.fn = "assign_results" /\ call.done)
    => \A f \in Permutations(1..Len(call.args.results)) :
          AssignAndScatter(call.args.n,
                           [i \in 1..Len(call.args.results) |->
                               call.args.results[f[i]]],
                           OnePixelLabels(call.args.n)) = call.ret

\* two results with different verdicts processed against the order of
\* their indices
ResultOrderIrrelevantWitness ==
    /\ call.fn = "assign_results" /\ call.done
    /\ Len(call.args.results) >= 2
    /\ call.args.results[1].ind > call.args.results[2].ind
    /\ call.args.results[1].verdict # call.args.results[2].verdict
    /\ \E p \in Pixels : call.ret.bimodality_image[p] = 1
    /\ \E p \in Pixels : call.ret.check_image[p] = 1

(* C13.  Degenerate input: on a constant sample of at least 5 values,      *)
(* constructing BimodalityMetrics and calling compute_metric raise         *)
(* nothing, take the fallback path and return False, whether the constant  *)
(* lies below or inside the Otsu window.                                   *)
ConstantSampleRejected ==
    (/\ call.fn = "bimodality_metrics" /\ call.done
     /\ call.args.sample.nvalues = 1
     /\ call.args.sample.n >= 5
     \* what estimate_bimodality answers on a constant sample
     /\ call.args.sample.ad_max = 100)
    => /\ ~call.raised
       /\ ~call.obj.optimization
       /\ call.ret = FALSE

(* C18.  Fit failure is absorbed: when the two-Gaussian fit fails, by not  *)
(* converging or on an infeasible starting value (seed std below 1e-10,    *)
(* seed mean outside [-30, 5]), the constructor raises nothing and leaves  *)
(* the fit flag failed, and compute_metric decides with the fallback       *)
(* estimator alone: sigma_max > bm threshold and ad_max > 1.5.             *)
FitFailureAbsorbed ==
    (/\ call.fn = "bimodality_metrics" /\ call.done
     /\ threshold_global_otsu(call.args.sample).error = "none"
     /\ LET s == call.args.sample
            two_sided == s.left > 0 /\ s.right > 0
        IN  \/ ~s.converges
            \/ two_sided /\ s.std_lt = 0
            \/ two_sided /\ (s.mean_lt < -3000 \/ s.mean_lt > 500))
    => /\ ~call.raised
       /\ call.obj.error = "none"
       /\ call.obj.optimization = FALSE
       /\ call.ret <=> /\ Gt(call.args.sample.bt_max, call.args.thresholds[4])
                       /\ Gt(call.args.sample.ad_max, 150)

\* a seed std of zero on a fit that would otherwise converge, the sample
\* accepted by the fallback
FitFailureAbsorbedWitness ==
    /\ call.fn = "bimodality_metrics" /\ call.done
    /\ call.args.sample.left > 0 /\ call.args.sample.right > 0
    /\ call.args.sample.std_lt = 0
    /\ call.args.sample.converges
    /\ ~call.raised
    /\ ~call.obj.optimization
    /\ call.ret = TRUE

(* C19.  Otsu threshold selection: when the global threshold lies below    *)
(* the window's lower bound, the threshold becomes the first multi-level   *)
(* level inside the window; when no level lies inside, the global          *)
(* threshold is kept and construction goes on without error, for every set *)
(* of levels.                                                              *)
OtsuSelectionTotal ==
    (/\ call.fn = "bimodality_metrics" /\ call.done
     /\ call.args.sample.nvalues >= 3
     /\ call.args.sample.otsu < -1800)
    => LET s == call.args.sample
           inside == {k \in 1..Len(s.multi) :
                         s.multi[k] > -1800 /\ s.multi[k] < 0}
       IN  /\ ~call.raised
           /\ inside # {}
              => \E k \in inside :
                    /\ \A k2 \in inside : k <= k2
                    /\ call.obj.threshold_global_otsu = s.multi[k]
           /\ inside = {} => call.obj.threshold_global_otsu = s.otsu

(* C14.  Degenerate ancillary data: when the interpolated DEM has mean 0   *)
(* or NaN, pre_processing.run raises, no intensity is filtered and the     *)
(* filtered image is never written in that run.                            *)
DegenerateDemAborts ==
    (phase = "pre" /\ pre.dem_mean \in {"zero", "nan"})
    => /\ pc \in {"wbd", "DEM", "dem_check", "error"}
       /\ ~pre.filtered
       /\ ~pre.saved

\* every ancillary input in place, the run ended by the DEM's zero mean
DegenerateDemAbortsWitness ==
    /\ phase = "pre" /\ pc = "error"
    /\ pre.dem_mean = "zero"
    /\ pre.raised = "ValueError"
    /\ pre.source = Ancillary
    /\ ~pre.saved

NoTestedPolReturnsInput ==
    (/\ phase = "remove"
     /\ \A k \in 1..Len(pol_list) : pol_list[k] \notin {"VV", "VH", "HH", "HV"})
    => /\ pc # "error"
       /\ pc = "done" => \A p \in Pixels : (result[p] # 0) = (input_mask[p] # 0)

PhaseBarrier ==
    [][pc = "block"
       => /\ block_iter = 0
             => /\ mask_src = "input"
                /\ \A p \in BlockPixels(CurrentBlock) :
                      (label_file'[p] # 0) = (EffectiveInput[p] # 0)
          /\ block_iter = 1
             => /\ mask_src = "check"
                /\ out_file'[1] = out_file[1]
                /\ \A p \in Pixels :
                      (label_file'[p] # 0)
                          = (check_file[p] # 0
                             /\ ~(phase = "fill" /\ no_data[p] = 1))
          /\ block_iter' # block_iter
             => /\ block_iter = 0 /\ block_iter' = 1
                /\ IsLastBlock(CurrentBlock)
                /\ block_ind + 1
                       = Len(block_param_generator(lines_per_block, Rows))
                /\ ProcessedBlocks(0)'
                       = 0..(Len(block_param_generator(lines_per_block,
                                                       Rows)) - 1)]_vars

\* the full-image pass is about to run after a block pass of several
\* blocks, on a check mask that differs from the original mask
PhaseBarrierWitness ==
    /\ pc = "block" /\ block_iter = 1 /\ mask_src = "check"
    /\ Len(block_param_generator(lines_per_block, Rows)) > 1
    /\ \E p \in Pixels : (check_file[p] # 0) # (input_mask[p] # 0)
    /\ \E p \in Pixels : check_file[p] # 0

(* C21.  When the mixture fit succeeded, compute_bimodality answers with   *)
(* the valley-split sigma_b (the split at the minimum of the simulated     *)
(* mixture between the two peak bins), not with the fallback sigma_max of  *)
(* estimate_bimodality, and compute_metric votes with that value.          *)
ValleySplitUsed ==
    (/\ call.fn = "compute_metric" /\ call.done
     /\ call.args.obj.optimization /\ call.args.obj.n > 4)
    => LET obj == call.args.obj
           thr == call.args.thresholds
           votes == BoolToInt(Gt(obj.ashman, thr[1]))
                    + BoolToInt(Gt(obj.valley, thr[4]))
                    + BoolToInt(GtFiveNinths(obj.bc_coeff))
       IN  /\ compute_bimodality(obj) = obj.valley
           /\ call.ret <=> /\ votes >= 2 \/ Gt(obj.ashman, AshmanStrong)
                           /\ Gt(obj.surface_ratio, thr[3])

(* C22.  Seam closure of the check mask: when the block pass has ended,    *)
(* all pixels of an 8-connected component of the phase's input mask, taken *)
(* over the full image, have the same check value, and every connected     *)
(* component of the check mask is a complete component of the input mask.  *)
SeamClosure ==
    (pc = "block" /\ block_iter = 1)
    => /\ \A K \in ComponentsOf(Support(EffectiveInput)) :
             \A p \in K : \A q \in K : check_file[p] = check_file[q]
       /\ \A C \in ComponentsOf(Support(check_file)) :
             C \in ComponentsOf(Support(EffectiveInput))

(* C23.  No duplicated jobs: no pixel belongs to a component dispatched to *)
(* the classifier in the block pass and to one dispatched in the           *)
(* full-image pass, and no pixel is True in both passes' output rasters.   *)
NoDuplicatedJobs ==
    /\ \A j0 \in jobs : \A j1 \in jobs :
          (j0.iter = 0 /\ j1.iter = 1) => j0.component \cap j1.component = {}
    /\ \A p \in Pixels : ~(out_file[1][p] # 0 /\ out_file[2][p] # 0)

\* a run through both passes in which the block pass dispatched a
\* component and accepted it, and the full-image pass labelled what the
\* check raster still held
NoDuplicatedJobsWitness ==
    /\ pc = "done"
    /\ lines_per_block < Rows
    /\ \E j \in jobs : /\ j.iter = 0 /\ j.verdict
                       /\ \A p \in j.component :
                             out_file[1][p] # 0 /\ out_file[2][p] = 0
    /\ \E p \in Pixels : check_file[p] # 0 /\ label_file[p] # 0

(* C24.  Exactly-once classification away from the image edge: when       *)
(* remove_false_water_bimodality_parallel has run both passes, every       *)
(* full-image component of the input mask with size >= minimum_pixel whose *)
(* bounding box touches neither the first nor the last row of the image    *)
(* was dispatched, whole, in exactly one of the two passes, for every      *)
(* block size.                                                             *)
ExactlyOnceAwayFromEdge ==
    (phase = "remove" /\ pc \in {"merge", "done"})
    => \A K \in ComponentsOf(Support(input_mask)) :
          (/\ Cardinality(K) >= minimum_pixel
           /\ \A p \in K : RowOf(p) # 0 /\ RowOf(p) # Rows - 1)
          => /\ Cardinality({j.iter : j \in {j \in jobs : j.component = K}})
                    = 1
             /\ \A j \in jobs : j.component \cap K # {} => j.component = K

\* a component of two rows across the seam of the block pass, deferred by
\* both blocks and dispatched whole by the full-image pass
ExactlyOnceAwayFromEdgeWitness ==
    /\ phase = "remove" /\ pc = "done"
    /\ lines_per_block < Rows
    /\ \E K \in ComponentsOf(Support(input_mask)) :
          /\ Cardinality(K) >= minimum_pixel
          /\ \A p \in K : RowOf(p) # 0 /\ RowOf(p) # Rows - 1
          /\ \E p \in K : \E q \in K :
                RowOf(p) < lines_per_block /\ RowOf(q) >= lines_per_block
          /\ \E j \in jobs : j.iter = 1 /\ j.component = K
          /\ ~ \E j \in jobs : j.iter = 0 /\ j.component \cap K # {}

(* C25.  Worker sees only its own component: in the block pass the pixels  *)
(* a worker treats as its component (label raster inside the read window   *)
(* equal to its label) are pixels of the current block, for every          *)
(* component position and size; the window, clipped to the image and not   *)
(* to the block, never brings in a row of another block that carries the   *)
(* same label number.                                                      *)
WorkerSeesOwnComponent ==
    (call.fn = "read_window" /\ call.done)
    => LET bp == block_param_generator(
                     call.args.lines_per_block,
                     call.args.rows)[call.args.block_ind + 1]
       IN  \A r \in call.ret :
              /\ r >= bp.read_start_line
              /\ r < bp.read_start_line + bp.block_length

(* C26.  Remove-false-water never adds water: with at least one            *)
(* polarization of VV, VH, HH, HV in pol_list, every pixel set in a        *)
(* per-pass output raster, and every pixel True in the result, is True in  *)
(* the input water mask.                                                   *)
RemoveNeverAddsWater ==
    (/\ phase = "remove"
     /\ \E k \in 1..Len(pol_list) : pol_list[k] \in ValidPols)
    => \A p \in Pixels :
          (out_file[1][p] # 0 \/ out_file[2][p] # 0 \/ result[p] # 0)
          => input_mask[p] # 0

\* a finished run that kept a component and dropped a pixel of the mask
RemoveNeverAddsWaterWitness ==
    /\ phase = "remove" /\ pc = "done"
    /\ \E k \in 1..Len(pol_list) : pol_list[k] \in ValidPols
    /\ \E p \in Pixels : result[p] # 0
    /\ \E p \in Pixels : result[p] = 0 /\ input_mask[p] # 0

(* C27.  Fill-gap only fills gaps: every pixel set in a per-pass output    *)
(* raster of fill_gap_water_bimodality_parallel, and every pixel True in   *)
(* its result, is True in its input mask and is not a no-data pixel.       *)
FillOnlyFillsGaps ==
    phase = "fill"
    => \A p \in Pixels :
          (out_file[1][p] # 0 \/ out_file[2][p] # 0 \/ result[p] # 0)
          => (input_mask[p] # 0 /\ no_data[p] # 1)

\* a finished run that filled a component next to a no-data pixel of the
\* input mask
FillOnlyFillsGapsWitness ==
    /\ phase = "fill" /\ pc = "done"
    /\ \E p \in Pixels : \E q \in Pixels :
          /\ result[p] # 0
          /\ input_mask[q] # 0 /\ no_data[q] = 1
          /\ Adjacent(p, q)

(* C28.  The per-pass output raster written by                             *)
(* remove_false_water_bimodality_parallel is binary, for every pol_list:   *)
(* every pixel value is 0 or 1, so that the merge with value_list [1, 1]   *)
(* sets every pixel a pass accepted.                                       *)
RemoveOutputBinary ==
    phase = "remove"
    => /\ \A it \in {1, 2} : \A p \in Pixels : out_file[it][p] \in {0, 1}
       /\ pc = "done"
          => \A p \in Pixels :
                (out_file[1][p] # 0 \/ out_file[2][p] # 0) => result[p] = 1

(* C29.  In fill_gap_water_bimodality_parallel the entries of pol_list     *)
(* outside VV, VH, HH, HV contribute nothing: the call completes without   *)
(* error, a pixel is set in a pass's output only if a component covering   *)
(* it was dispatched in that pass for a tested polarization and accepted   *)
(* (a component that was not dispatched keeps output False, and no verdict *)
(* reaches another component's pixels), and every accepted component is    *)
(* set.                                                                    *)
UntestedEntriesInert ==
    phase = "fill"
    => /\ pc # "error"
       /\ \A it \in {0, 1} : \A p \in Pixels :
             (\E b \in ProcessedBlocks(it) :
                 InBlock(p, block_param_generator(lines_per_block_set[it + 1],
                                                  Rows)[b + 1]))
             => ((out_file[it + 1][p] # 0)
                    <=> \E j \in jobs :
                           /\ j.iter = it /\ p \in j.component /\ j.verdict
                           /\ pol_list[j.pol_ind + 1] \in ValidPols)
====
